---- MODULE Spec2Model ----
(***************************************************************************)
(* Model of the astraops client (rsds143/astra-devops-sdk-go): the         *)
(* blocking operations CreateDb, Terminate, Park, UnPark, the poll loop    *)
(* waitUntil / WaitUntil, and the one-shot operations Resize and           *)
(* ResetPassword.  Two variants of the client are modelled: the one in     *)
(* astraops/astra.go ("astra") and the most recent one kept in             *)
(* astraops/astra_test.go ("latest").  The remote service and the          *)
(* transport are the environment: every response is chosen from a small    *)
(* set of transport outcomes, status codes and bodies.                     *)
(* Database ids are well-formed path segments, so http.NewRequest and      *)
(* json.Marshal never fail and every call gets to a.client.Do.             *)
(***************************************************************************)
EXTENDS Integers, Sequences, FiniteSets, TLC

VARIABLES variant, op, pc, id, tries, intervalSeconds, status, i,
          res, fres, lastResponse, lastStatusCode,
          err, retId, retDb,
          dispatches, sleeps, fetches, slept, firstMatch,
          fmtEs, fmtOut, fmtCalls,
          client, plan, remote, frames, proc,
          callerVerbose, logs, lastLog,
          pair, pres,
          listArgs, listQuery, listRes, listOut, listPc

\* the state of the calls of FormatErrors
fvars == <<fmtEs, fmtOut, fmtCalls>>
\* the state of two calls of WaitUntil running side by side on one client
cvars == <<client, plan, remote, frames, proc>>
\* the flag the caller gave to Authenticate, the number of entries the polls
\* have logged and the last of them
lvars == <<callerVerbose, logs, lastLog>>
\* the two variants of Terminate run side by side on the same responses
tvars == <<pair, pres>>
\* one call of ListDb: its arguments, the query it sent, the response, what it
\* returned and its position ("idle", "done")
qvars == <<listArgs, listQuery, listRes, listOut, listPc>>
\* what the steps of the single call that log nothing leave alone
aside == <<fvars, cvars, lvars, tvars, qvars>>

vars == <<variant, op, pc, id, tries, intervalSeconds, status, i,
          res, fres, lastResponse, lastStatusCode,
          err, retId, retDb,
          dispatches, sleeps, fetches, slept, firstMatch, aside>>

(***************************************************************************)
(* Bounds of the model (arguments a caller may pass to WaitUntil).         *)
(***************************************************************************)
MaxTries == 3
MaxInterval == 2
\* longest error list handed to FormatErrors, and number of calls made on it
MaxErrors == 3
MaxCalls == 2
\* tries of each of the two concurrent calls, and length of the sequence of
\* responses the remote holds for each database
ConcTries == 2

(***************************************************************************)
(* Program constants.                                                      *)
(***************************************************************************)
Active == "ACTIVE"
Parked == "PARKED"
Terminated == "TERMINATED"
Terminating == "TERMINATING"

CreateTries == 20
CreateInterval == 5
LatestCreateTries == 30
LatestCreateInterval == 30
ParkTries == 30
ParkInterval == 30
UnParkTries == 60
UnParkInterval == 30
TerminateTries == 30
TerminateInterval == 10

Variants == {"astra", "latest"}

\* statuses a database body may carry (a subset of StatusEnum that holds every
\* target, two transient statuses and a dead-end one)
Statuses == {Active, "PENDING", Parked, Terminated, Terminating, "ERROR"}

\* ids of databases, and values of the location header ("" = header absent)
Ids == {"db-123"}
Locations == {"", "db-123"}

\* the DataBase value: only the fields the client looks at or hands back
DataBase(dbid, st) == [ID |-> dbid, Status |-> st]
ZeroDataBase == DataBase("", "")

\* the APIError lists a remote error body may carry
APIError(n, m) == [ID |-> n, Message |-> m]
ErrorLists == {<<>>, <<APIError(1, "a"), APIError(2, "b")>>}

(***************************************************************************)
(* Responses.  A body is one of: a database document, a structured error   *)
(* document {"errors":[...]}, a JSON object whose "errors" member is not a *)
(* list of error objects, or bytes that are not a JSON object.             *)
(***************************************************************************)
Body(shape, db, es) == [shape |-> shape, db |-> db, errors |-> es]
\* every status once, and a second document with status ACTIVE so that two
\* snapshots with the same status can be told apart
DbBodies == {Body("db", DataBase("db-123", s), <<>>) : s \in Statuses}
            \cup {Body("db", DataBase("db-9", Active), <<>>)}
ErrorBodies == {Body("errors", ZeroDataBase, es) : es \in ErrorLists}
OtherBodies == {Body("otherjson", ZeroDataBase, <<>>), Body("garbage", ZeroDataBase, <<>>)}
Bodies == DbBodies \cup ErrorBodies \cup OtherBodies

Response(failed, code, location, body) ==
    [failed |-> failed, StatusCode |-> code, location |-> location, body |-> body]
NoResponse == Response(FALSE, 0, "", Body("none", ZeroDataBase, <<>>))
TransportError == Response(TRUE, 0, "", Body("none", ZeroDataBase, <<>>))

DispatchCodes == {200, 201, 202, 204, 300, 401, 500}
FetchCodes == {200, 401, 404}

DispatchResponses ==
    {TransportError} \cup
    {Response(FALSE, c, "", b) : c \in DispatchCodes, b \in ErrorBodies \cup OtherBodies}
    \cup {Response(FALSE, 201, l, b) : l \in Locations, b \in ErrorBodies \cup OtherBodies}
FetchResponses ==
    {TransportError} \cup
    {Response(FALSE, c, "", b) : c \in FetchCodes, b \in Bodies}

(***************************************************************************)
(* encoding/json, as far as the three target types are concerned: unknown  *)
(* members are ignored, a member of the wrong type is an error.            *)
(***************************************************************************)
\* variation: a body that does not decode is taken for an empty document
DecodeDataBaseOk_Lenient(body) == TRUE

\* json.NewDecoder(res.Body).Decode(&db) with db a DataBase
DecodeDataBaseOk(body) == body.shape \in {"db", "errors", "otherjson"}
\* variation: only the status of the document fetched is kept
DecodeDataBase_StatusOnly(body) == DataBase("", body.db.Status)

DecodeDataBase(body) == IF body.shape = "db" THEN body.db ELSE ZeroDataBase

\* Decode(&resObj) with resObj an ErrorResponse
DecodeErrorResponseOk(body) == body.shape \in {"db", "errors"}
DecodeErrorResponse(body) == body.errors

\* Decode(&resObj) with resObj a map[string]interface{}
DecodeMapOk(body) == body.shape \in {"db", "errors", "otherjson"}

\* what an error message carries of the remote error document
Payload(form, es) == [form |-> form, errors |-> es]
NoPayload == Payload("none", <<>>)
\* resObj["errors"] of the decoded map
MapErrors(body) ==
    CASE body.shape = "errors" -> Payload("list", body.errors)
      [] body.shape = "otherjson" -> Payload("raw", <<>>)
      [] OTHER -> Payload("nil", <<>>)

(***************************************************************************)
(* Errors returned to the caller.  names is the set of values the message  *)
(* text carries.                                                           *)
(***************************************************************************)
Error(kind, wrap, names, code, payload, eid, st, seconds, lastR, lastC) ==
    [kind |-> kind, wrap |-> wrap, names |-> names, code |-> code,
     payload |-> payload, id |-> eid, status |-> st, seconds |-> seconds,
     lastResponse |-> lastR, lastStatusCode |-> lastC]
NoLast == [kind |-> "", code |-> 0, payload |-> NoPayload]
Nil == Error("nil", "", {}, 0, NoPayload, "", "", 0, NoLast, 0)
Pending == Error("pending", "", {}, 0, NoPayload, "", "", 0, NoLast, 0)

TransportFailure(names, eid) ==
    Error("TransportFailure", "", names, 0, NoPayload, eid, "", 0, NoLast, 0)
DecodeFailure(names, code) ==
    Error("DecodeFailure", "", names, code, NoPayload, "", "", 0, NoLast, 0)
RemoteRejection(code, payload) ==
    Error("RemoteRejection", "", {"code", "errors"}, code, payload, "", "", 0, NoLast, 0)
Wrap(e, w) == [e EXCEPT !.wrap = w]

\* variation: the sleeps between the attempts are counted, not all of them
TimeoutSeconds_Between(iv, t) == iv * (t - 1)

\* fmt.Errorf("unable to find db id %s with status %s after %v seconds", ...)
TimeoutSeconds(iv, t) == iv * t
ConvergenceTimeout(eid, st, iv, t) ==
    Error("ConvergenceTimeout", "", {"id", "status", "seconds"}, 0, NoPayload,
          eid, st, TimeoutSeconds(iv, t), NoLast, 0)
\* variation: the status code of the last fetch is left out
DeleteNotComplete_NoCode(eid, lastR, lastC) ==
    Error("ConvergenceTimeout", "", {"id", "lastResponse"}, 0,
          NoPayload, eid, "", 0, lastR, 0)

\* fmt.Errorf("delete of db %s not complete. Last response ... last status code was %v")
DeleteNotComplete(eid, lastR, lastC) ==
    Error("ConvergenceTimeout", "", {"id", "lastResponse", "lastStatusCode"}, 0,
          NoPayload, eid, "", 0, lastR, lastC)

(***************************************************************************)
(* The action dispatcher: which response codes count as accepted, and the  *)
(* error built from any other response.                                    *)
(***************************************************************************)
CreateAccepted(code) == code = 201
TerminateAccepted(code) == code = 202
\* variation: park expects 200
ParkAccepted_200(code) == code = 200
ParkAccepted(code) == code = 202
UnParkAccepted(code) == code = 202
ResizeAccepted(code) == ~(code > 299)
ResetPasswordAccepted(code) == code = 200

Accepted(o, code) ==
    CASE o = "CreateDb" -> CreateAccepted(code)
      [] o = "Terminate" -> TerminateAccepted(code)
      [] o = "Park" -> ParkAccepted(code)
      [] o = "UnPark" -> UnParkAccepted(code)
      [] o = "Resize" -> ResizeAccepted(code)
      [] o = "ResetPassword" -> ResetPasswordAccepted(code)

\* latest variant: readErrorFromResponse(res, expectedCodes...)
readErrorFromResponse(r) ==
    IF ~DecodeErrorResponseOk(r.body)
    THEN DecodeFailure({"code"}, r.StatusCode)
    ELSE RemoteRejection(r.StatusCode, Payload("list", DecodeErrorResponse(r.body)))

\* variation: the decoded errors are left out of the message
TypedRejection_NoErrors(r) ==
    IF ~DecodeErrorResponseOk(r.body)
    THEN DecodeFailure({"code"}, r.StatusCode)
    ELSE RemoteRejection(r.StatusCode, NoPayload)

\* astra.go: the error branch that decodes into an ErrorResponse
\* (CreateDb, Terminate)
TypedRejection(r) ==
    IF ~DecodeErrorResponseOk(r.body)
    THEN DecodeFailure({"code"}, r.StatusCode)
    ELSE RemoteRejection(r.StatusCode, Payload("list", DecodeErrorResponse(r.body)))

\* astra.go: the error branch that decodes into a map; the decode error names
\* the status code in Park and UnPark only
MapRejection(r, names) ==
    IF ~DecodeMapOk(r.body)
    THEN DecodeFailure(names, IF "code" \in names THEN r.StatusCode ELSE 0)
    ELSE RemoteRejection(r.StatusCode, MapErrors(r.body))

\* Resize of the latest variant: ErrorResponse, own messages
LatestResizeRejection(r) ==
    IF ~DecodeErrorResponseOk(r.body)
    THEN DecodeFailure({}, 0)
    ELSE RemoteRejection(r.StatusCode, Payload("list", DecodeErrorResponse(r.body)))

\* the error of a response that was not accepted
Rejection(v, o, r) ==
    IF v = "latest"
    THEN CASE o = "Resize" -> LatestResizeRejection(r)
           [] o = "Park" -> Wrap(readErrorFromResponse(r), "park db failed because")
           [] o = "UnPark" -> Wrap(readErrorFromResponse(r), "unpark db failed because")
           [] OTHER -> readErrorFromResponse(r)
    ELSE CASE o \in {"CreateDb", "Terminate"} -> TypedRejection(r)
           [] o \in {"Park", "UnPark"} -> MapRejection(r, {"code"})
           [] OTHER -> MapRejection(r, {})

\* the error of a failed a.client.Do(req) of the mutating request
DispatchTransportFailure(v, o, argId) ==
    LET e == IF o = "CreateDb" THEN TransportFailure({}, "")
                               ELSE TransportFailure({"id"}, argId)
    IN  CASE v = "latest" /\ o = "Park" -> Wrap(e, "park db failed because")
          [] v = "latest" /\ o = "UnPark" -> Wrap(e, "unpark db failed because")
          [] OTHER -> e

\* variation: the error of a.client.Do is not looked at
DispatchError_IgnoreTransport(v, o, argId, r) ==
    IF ~r.failed /\ ~Accepted(o, r.StatusCode) THEN Rejection(v, o, r) ELSE Nil

\* the outcome of the mutating request: Nil when it was accepted
DispatchError(v, o, argId, r) ==
    IF r.failed THEN DispatchTransportFailure(v, o, argId)
    ELSE IF ~Accepted(o, r.StatusCode) THEN Rejection(v, o, r)
    ELSE Nil

(***************************************************************************)
(* The non-blocking requests of the latest variant, as functions of the    *)
(* response to the mutating request.                                       *)
(***************************************************************************)
CreateDbAsync(r) ==
    IF r.failed THEN [id |-> "", err |-> TransportFailure({}, "")]
    ELSE IF r.StatusCode # 201 THEN [id |-> "", err |-> readErrorFromResponse(r)]
    ELSE [id |-> r.location, err |-> Nil]
ParkAsync(databaseID, r) ==
    IF r.failed THEN TransportFailure({"id"}, databaseID)
    ELSE IF r.StatusCode # 202 THEN readErrorFromResponse(r)
    ELSE Nil
UnparkAsync(databaseID, r) ==
    IF r.failed THEN TransportFailure({"id"}, databaseID)
    ELSE IF r.StatusCode # 202 THEN readErrorFromResponse(r)
    ELSE Nil

(***************************************************************************)
(* FindDb: one status fetch.                                               *)
(***************************************************************************)
Found(db, e) == [db |-> db, err |-> e]
\* variation: a response answered 401 is read like one answered 200
FindDb_401AsFound(v, dbid, r) ==
    IF r.failed THEN Found(ZeroDataBase, TransportFailure({"id"}, dbid))
    ELSE IF r.StatusCode # 200 /\ r.StatusCode # 401
         THEN Found(ZeroDataBase,
                    IF v = "latest" THEN readErrorFromResponse(r)
                                    ELSE MapRejection(r, {}))
    ELSE IF r.StatusCode = 401 THEN Found(DataBase(dbid, Terminated), Nil)
    ELSE IF ~DecodeDataBaseOk(r.body)
         THEN Found(ZeroDataBase, DecodeFailure({}, 0))
    ELSE Found(DecodeDataBase(r.body), Nil)

FindDb(v, dbid, r) ==
    IF r.failed THEN Found(ZeroDataBase, TransportFailure({"id"}, dbid))
    ELSE IF r.StatusCode # 200
         THEN Found(ZeroDataBase,
                    IF v = "latest" THEN readErrorFromResponse(r)
                                    ELSE MapRejection(r, {}))
    ELSE IF ~DecodeDataBaseOk(r.body)
         THEN Found(ZeroDataBase, DecodeFailure({}, 0))
    ELSE Found(DecodeDataBase(r.body), Nil)

\* variation: any fetched status ends the poll
StatusMatches_Any(db, st) == db.Status # ""

\* variation: a status the target cannot follow ends the poll as well
StatusMatches_OrDeadEnd(db, st) == db.Status = st \/ db.Status \in {"ERROR", Terminated}

\* waitUntil: if db.Status == status
StatusMatches(db, st) == db.Status = st
\* variation: only TERMINATED counts as deleted
DeletedEnough_TerminatedOnly(db) == db.Status = Terminated

\* Terminate: if db.Status == Terminated || db.Status == Terminating
DeletedEnough(db) == db.Status = Terminated \/ db.Status = Terminating
\* variation: the absent database is looked for under 404
NotFound_404(code) == code = 404

\* Terminate: if res.StatusCode == 401
NotFound(code) == code = 401

\* variation: CreateDb of astra.go polls with the budget of the latest variant
Budget_CreateAsLatest(v, o) ==
    CASE o = "CreateDb" -> [tries |-> LatestCreateTries, interval |-> LatestCreateInterval, status |-> Active]
      [] o = "Park" -> [tries |-> ParkTries, interval |-> ParkInterval, status |-> Parked]
      [] o = "UnPark" -> [tries |-> UnParkTries, interval |-> UnParkInterval, status |-> Active]
      [] o = "Terminate" -> [tries |-> TerminateTries, interval |-> TerminateInterval, status |-> ""]

\* the budget each blocking operation hands to the poll
Budget(v, o) ==
    CASE o = "CreateDb" /\ v = "astra" -> [tries |-> CreateTries, interval |-> CreateInterval, status |-> Active]
      [] o = "CreateDb" /\ v = "latest" -> [tries |-> LatestCreateTries, interval |-> LatestCreateInterval, status |-> Active]
      [] o = "Park" -> [tries |-> ParkTries, interval |-> ParkInterval, status |-> Parked]
      [] o = "UnPark" -> [tries |-> UnParkTries, interval |-> UnParkInterval, status |-> Active]
      [] o = "Terminate" -> [tries |-> TerminateTries, interval |-> TerminateInterval, status |-> ""]

\* how the blocking operation wraps the error of the poll
WaitWrap(v, o) ==
    CASE o = "CreateDb" -> "create db failed because"
      [] o = "Park" /\ v = "astra" -> "park db failed because"
      [] o = "Park" /\ v = "latest" -> "unable to check status for park db because of error"
      [] o = "UnPark" /\ v = "astra" -> "unpark db failed because"
      [] o = "UnPark" /\ v = "latest" -> "unable to check status for unpark db because of error"
      [] OTHER -> ""

\* variation: the id is dropped on the way out
ReturnedId_Empty(v, o, pollId) == ""

\* the id CreateDb of astra.go returns next to the database
ReturnedId(v, o, pollId) == IF o = "CreateDb" /\ v = "astra" THEN pollId ELSE ""

(***************************************************************************)
(* Authenticate and the log entries of the polls.  An entry is kept by its *)
(* kind ("waiting" for the terse one) and by what the detailed text names. *)
(***************************************************************************)
\* the client Authenticate(clientInfo, verbose) returns: astra.go fills in
\* client and token only, the latest variant the flag as well
Authenticate(v, verbose) ==
    [token |-> "Bearer t", client |-> "http",
     verbose |-> IF v = "latest" THEN verbose ELSE FALSE]

LogEntry(kind, names, dbid, remaining) ==
    [kind |-> kind, names |-> names, id |-> dbid, remaining |-> remaining]
NoLog == LogEntry("", {}, "", 0)
\* log.Printf("waiting")
Waiting == LogEntry("waiting", {}, "", 0)

\* the entry of an iteration of waitUntil / WaitUntil that goes on: f is what
\* FindDb returned, remaining is tries-i-1
WaitLog(verbose, dbid, f, remaining) ==
    IF ~verbose THEN Waiting
    ELSE IF f.err # Nil
         THEN LogEntry("detail", {"id", "error", "remaining"}, dbid, remaining)
         ELSE LogEntry("detail", {"id", "state", "expected", "remaining"}, dbid, remaining)

\* the entries of the loop of Terminate: a 200 that is not deleted yet, another
\* code, and (latest variant, verbose only) the status that ends the loop
NotDeletedLog(verbose, dbid) ==
    IF ~verbose THEN Waiting
    ELSE LogEntry("detail", {"id", "expected", "state"}, dbid, 0)
OtherCodeLog(verbose, dbid) ==
    IF ~verbose THEN Waiting
    ELSE LogEntry("detail", {"id", "expected", "code", "error"}, dbid, 0)
DeletedLog(dbid) == LogEntry("detail", {"id", "state"}, dbid, 0)

\* one more entry
Log(entry) == logs' = logs + 1 /\ lastLog' = entry
NoLogging == UNCHANGED <<logs, lastLog>>

(***************************************************************************)
(* ListDb.  The query is kept as the set of key/value pairs added to it    *)
(* and as the text q.Encode() makes of them.                               *)
(***************************************************************************)
ListArgs(include, provider, startingAfter, limit) ==
    [include |-> include, provider |-> provider,
     startingAfter |-> startingAfter, limit |-> limit]
NoQuery == [params |-> {}, raw |-> ""]
NoListOut == [dbs |-> <<>>, err |-> Pending]
\* no call of ListDb is made
ListIdle ==
    /\ listArgs = ListArgs("", "", "", 0)
    /\ listQuery = NoQuery
    /\ listRes = NoResponse
    /\ listOut = NoListOut
    /\ listPc = "idle"

(***************************************************************************)
(* Terminate of astra.go and Terminate of the latest variant, called with  *)
(* the same id and given the same response to the terminate request and    *)
(* the same response to each status fetch.  Each is kept by its position   *)
(* ("idle", "poll", "done"), its counter i, the fetches it has made and    *)
(* the kind of its outcome.                                                *)
(***************************************************************************)
Call(p, n, k, outcome) == [pc |-> p, i |-> n, fetches |-> k, outcome |-> outcome]
PairIdle ==
    /\ pair = [v \in Variants |-> Call("idle", 0, 0, "")]
    /\ pres = NoResponse

\* what one iteration of the loop of Terminate does with the response r
TerminateVerdict(v, r) ==
    IF r.failed THEN "abort"
    ELSE IF NotFound(r.StatusCode) THEN "success"
    ELSE IF r.StatusCode = 200
         THEN IF ~DecodeDataBaseOk(r.body) THEN "abort"
              ELSE IF DeletedEnough(DecodeDataBase(r.body)) THEN "success"
              ELSE "continue"
    ELSE IF v = "astra" /\ ~DecodeMapOk(r.body) THEN "abort"
    ELSE "continue"

\* the terminate request of variant v answered with r
PairDispatched(v, d, r) ==
    IF DispatchError(v, "Terminate", d, r) # Nil THEN Call("done", 0, 0, "abort")
    ELSE IF 0 < TerminateTries THEN Call("poll", 0, 0, "")
    ELSE Call("done", 0, 0, "exhaustion")

\* one iteration of the loop of variant v, its fetch answered with r
PairIterated(v, r) ==
    LET c == pair[v]
        verdict == TerminateVerdict(v, r)
    IN  IF c.pc # "poll" THEN c
        ELSE IF verdict # "continue" THEN Call("done", c.i, c.fetches + 1, verdict)
        ELSE IF c.i + 1 < TerminateTries THEN Call("poll", c.i + 1, c.fetches + 1, "")
        ELSE Call("done", c.i + 1, c.fetches + 1, "exhaustion")

\* the single call, FormatErrors, the concurrent calls and the log are not in play
PairRest ==
    UNCHANGED <<variant, op, pc, id, tries, intervalSeconds, status, i,
                res, fres, lastResponse, lastStatusCode, err, retId, retDb,
                dispatches, sleeps, fetches, slept, firstMatch, fvars, cvars, lvars, qvars>>

PairTerminate ==
    \E d \in Ids, r \in DispatchResponses :
        /\ \A v \in Variants : pair[v].pc = "idle"
        /\ pair' = [v \in Variants |-> PairDispatched(v, d, r)]
        /\ pres' = r
        /\ PairRest

PairIteration ==
    \E r \in FetchResponses :
        /\ \E v \in Variants : pair[v].pc = "poll"
        /\ pair' = [v \in Variants |-> PairIterated(v, r)]
        /\ pres' = r
        /\ PairRest

(***************************************************************************)
(* Two goroutines call WaitUntil on one AuthenticatedClient, each on its   *)
(* own database.  The parameters and i of a call live in the frame of that *)
(* call; the client is shared and only read (setHeaders, a.client.Do,      *)
(* a.verbose).  The remote holds, per database, the responses it will give *)
(* to the successive fetches of that database.                             *)
(***************************************************************************)
Procs == {1, 2}
IdOf(p) == IF p = 1 THEN "db-1" ELSE "db-2"
ConcIds == {IdOf(p) : p \in Procs}
\* the first call waits for PARKED, the second for ACTIVE
TargetFor(p) == IF p = 1 THEN Parked ELSE Active

\* the fields of the AuthenticatedClient
TheClient == [token |-> "Bearer t", client |-> "http", verbose |-> FALSE]

\* what a fetch of database d may be answered with
ConcResponses(d) ==
    {TransportError,
     Response(FALSE, 200, "", Body("db", DataBase(d, Active), <<>>)),
     Response(FALSE, 200, "", Body("db", DataBase(d, Parked), <<>>))}

\* the call each goroutine makes and the responses its database will give
Plans(p) ==
    {[id |-> IdOf(p), tries |-> t, intervalSeconds |-> 1, status |-> TargetFor(p),
      script |-> s] : t \in 0..ConcTries, s \in [1..ConcTries -> ConcResponses(IdOf(p))]}

\* variation: the parameters and the counter are kept in one place for all calls
Frame_Shared(p) == 1

\* the frame of the call goroutine p makes: id, tries, intervalSeconds, status, i
Frame(p) == p
Frames == {Frame(p) : p \in Procs}
ZeroFrame == [id |-> "", tries |-> 0, intervalSeconds |-> 0, status |-> "", i |-> 0]
IdleProc == [pc |-> "idle", fetches |-> 0, err |-> Pending, db |-> ZeroDataBase]

\* no concurrent call is made
ConcIdle ==
    /\ client = TheClient
    /\ plan = [p \in Procs |-> [id |-> IdOf(p), tries |-> 0, intervalSeconds |-> 0,
                                status |-> "", script |-> <<>>]]
    /\ remote = [d \in ConcIds |-> <<>>]
    /\ frames = [f \in Frames |-> ZeroFrame]
    /\ proc = [p \in Procs |-> IdleProc]

\* the response the remote gives to the next fetch of database d
NextResponse(d) == IF remote[d] = <<>> THEN TransportError ELSE Head(remote[d])

\* for i := ...; i < tries; ... in the frame fr of goroutine p
ConcLoopTest(p, fr) ==
    proc' = [proc EXCEPT ![p] =
                IF fr.i < fr.tries
                THEN [@ EXCEPT !.pc = "sleep"]
                ELSE [@ EXCEPT !.pc = "done", !.db = ZeroDataBase,
                               !.err = ConvergenceTimeout(fr.id, fr.status,
                                                          fr.intervalSeconds, fr.tries)]]

\* goroutine p enters WaitUntil(id, tries, intervalSeconds, status)
ConcCall(p) ==
    /\ proc[p].pc = "idle"
    /\ LET fr == [id |-> plan[p].id, tries |-> plan[p].tries,
                  intervalSeconds |-> plan[p].intervalSeconds,
                  status |-> plan[p].status, i |-> 0]
       IN  /\ frames' = [frames EXCEPT ![Frame(p)] = fr]
           /\ ConcLoopTest(p, fr)
    /\ UNCHANGED <<client, plan, remote>>

\* time.Sleep in goroutine p
ConcSleep(p) ==
    /\ proc[p].pc = "sleep"
    /\ proc' = [proc EXCEPT ![p].pc = "fetch"]
    /\ UNCHANGED <<client, plan, remote, frames>>

\* the rest of one iteration in goroutine p
ConcFetch(p) ==
    /\ proc[p].pc = "fetch"
    /\ LET fr == frames[Frame(p)]
           f == FindDb("latest", fr.id, NextResponse(fr.id))
       IN  /\ remote' = [remote EXCEPT ![fr.id] = IF @ = <<>> THEN @ ELSE Tail(@)]
           /\ IF f.err = Nil /\ StatusMatches(f.db, fr.status)
              THEN /\ proc' = [proc EXCEPT ![p] = [pc |-> "done", fetches |-> @.fetches + 1,
                                                   err |-> Nil, db |-> f.db]]
                   /\ UNCHANGED frames
              ELSE LET nfr == [fr EXCEPT !.i = @ + 1]
                   IN  /\ frames' = [frames EXCEPT ![Frame(p)] = nfr]
                       /\ proc' = [proc EXCEPT ![p] =
                              IF nfr.i < nfr.tries
                              THEN [@ EXCEPT !.pc = "sleep", !.fetches = @ + 1]
                              ELSE [pc |-> "done", fetches |-> @.fetches + 1,
                                    db |-> ZeroDataBase,
                                    err |-> ConvergenceTimeout(nfr.id, nfr.status,
                                                nfr.intervalSeconds, nfr.tries)]]
    /\ UNCHANGED <<client, plan>>

InitConc ==
    /\ variant = "latest"
    /\ op = "none" /\ pc = "idle"
    /\ id = "" /\ tries = 0 /\ intervalSeconds = 0 /\ status = "" /\ i = 0
    /\ res = NoResponse /\ fres = NoResponse
    /\ lastResponse = NoLast /\ lastStatusCode = 0
    /\ err = Pending /\ retId = "" /\ retDb = ZeroDataBase
    /\ dispatches = 0 /\ sleeps = 0 /\ fetches = 0 /\ slept = 0 /\ firstMatch = 0
    /\ fmtEs = <<>> /\ fmtOut = "" /\ fmtCalls = 0
    /\ client = TheClient
    /\ \E a \in Plans(1), b \in Plans(2) : plan = [p \in Procs |-> IF p = 1 THEN a ELSE b]
    /\ remote = [d \in ConcIds |-> plan[CHOOSE p \in Procs : IdOf(p) = d].script]
    /\ frames = [f \in Frames |-> ZeroFrame]
    /\ proc = [p \in Procs |-> IdleProc]
    /\ callerVerbose = FALSE /\ logs = 0 /\ lastLog = NoLog
    /\ PairIdle
    /\ ListIdle

\* the single call and FormatErrors are not in play
ConcRest ==
    UNCHANGED <<variant, op, pc, id, tries, intervalSeconds, status, i,
                res, fres, lastResponse, lastStatusCode, err, retId, retDb,
                dispatches, sleeps, fetches, slept, firstMatch, fvars, lvars, tvars, qvars>>

ConcWaitUntil == \E p \in Procs : ConcCall(p) /\ ConcRest
ConcSleeping == \E p \in Procs : ConcSleep(p) /\ ConcRest
ConcFetching == \E p \in Procs : ConcFetch(p) /\ ConcRest

NextConc ==
    \/ ConcWaitUntil
    \/ ConcSleeping
    \/ ConcFetching

SpecConc == InitConc /\ [][NextConc]_vars

(***************************************************************************)
(* State machine.  pc is the position of the one call in progress:         *)
(* "idle" (no call yet), "sleep" (loop condition held, about to sleep),    *)
(* "fetch" (slept, about to fetch), "done" (returned).                     *)
(***************************************************************************)
Init ==
    /\ variant \in Variants
    /\ op = "none" /\ pc = "idle"
    /\ id = "" /\ tries = 0 /\ intervalSeconds = 0 /\ status = "" /\ i = 0
    /\ res = NoResponse /\ fres = NoResponse
    /\ lastResponse = NoLast /\ lastStatusCode = 0
    /\ err = Pending /\ retId = "" /\ retDb = ZeroDataBase
    /\ dispatches = 0 /\ sleeps = 0 /\ fetches = 0 /\ slept = 0 /\ firstMatch = 0
    /\ fmtEs = <<>> /\ fmtOut = "" /\ fmtCalls = 0
    /\ ConcIdle
    /\ callerVerbose = FALSE /\ logs = 0 /\ lastLog = NoLog
    /\ PairIdle
    /\ ListIdle

\* the statuses that end the poll of the call in progress with success
TargetSet(o, st) == IF o = "Terminate" THEN {Terminated, Terminating} ELSE {st}
\* the fetch response shows a target status or, for Terminate, a 401
IsTarget(o, st, r) ==
    /\ ~r.failed
    /\ \/ r.StatusCode = 200 /\ r.body.shape = "db" /\ r.body.db.Status \in TargetSet(o, st)
       \/ o = "Terminate" /\ r.StatusCode = 401

\* return from the call
Return(e, rid, db) ==
    /\ pc' = "done" /\ err' = e /\ retId' = rid /\ retDb' = db

\* variation: the counter is not advanced at the end of an iteration
LoopTest_NoAdvance(n, t, exhausted, rid) ==
    /\ i' = IF n = 0 THEN 0 ELSE n - 1
    /\ IF i' < t
       THEN pc' = "sleep" /\ UNCHANGED <<err, retId, retDb>>
       ELSE Return(exhausted, rid, ZeroDataBase)

\* variation: the condition is tested after the body, which runs once at least
LoopTest_TestedAfter(n, t, exhausted, rid) ==
    /\ i' = n
    /\ IF n < t \/ n = 0
       THEN pc' = "sleep" /\ UNCHANGED <<err, retId, retDb>>
       ELSE Return(exhausted, rid, ZeroDataBase)

\* for i := n; i < t; ... : either the next iteration starts or the loop is
\* left and the statement after it returns the exhaustion error
LoopTest(n, t, exhausted, rid) ==
    /\ i' = n
    /\ IF n < t
       THEN pc' = "sleep" /\ UNCHANGED <<err, retId, retDb>>
       ELSE Return(exhausted, rid, ZeroDataBase)

\* the error a blocking operation returns when its waitUntil is exhausted
Exhausted(v, o, pollId, st, iv, t) ==
    IF o = "Terminate" THEN DeleteNotComplete(pollId, lastResponse', lastStatusCode')
    ELSE Wrap(ConvergenceTimeout(pollId, st, iv, t), WaitWrap(v, o))

\* variation: the poll is entered whatever the mutating request returned
Dispatch_PollAnyway(o, argId, r) ==
    /\ pc = "idle"
    /\ op' = o /\ res' = r /\ dispatches' = dispatches + 1
    /\ UNCHANGED <<variant, fres, lastResponse, lastStatusCode,
                   sleeps, fetches, slept, firstMatch, aside>>
    /\ LET b == Budget(variant, o)
           pollId == IF o = "CreateDb" THEN r.location ELSE argId
       IN  /\ id' = pollId
           /\ tries' = b.tries /\ intervalSeconds' = b.interval /\ status' = b.status
           /\ LoopTest(0, b.tries,
                       Exhausted(variant, o, pollId, b.status, b.interval, b.tries),
                       ReturnedId(variant, o, pollId))

\* the mutating request of a blocking operation and what follows from its
\* response: an immediate error, or the start of the poll
Dispatch(o, argId, r) ==
    /\ pc = "idle"
    /\ op' = o /\ res' = r /\ dispatches' = dispatches + 1
    /\ UNCHANGED <<variant, fres, lastResponse, lastStatusCode,
                   sleeps, fetches, slept, firstMatch, aside>>
    /\ LET e == DispatchError(variant, o, argId, r)
           b == Budget(variant, o)
           pollId == IF o = "CreateDb" THEN r.location ELSE argId
       IN  IF e # Nil
           THEN /\ id' = argId
                /\ UNCHANGED <<tries, intervalSeconds, status, i>>
                /\ Return(e, "", ZeroDataBase)
           ELSE /\ id' = pollId
                /\ tries' = b.tries /\ intervalSeconds' = b.interval /\ status' = b.status
                /\ LoopTest(0, b.tries,
                            Exhausted(variant, o, pollId, b.status, b.interval, b.tries),
                            ReturnedId(variant, o, pollId))

CreateDb == \E r \in DispatchResponses : Dispatch("CreateDb", "", r)
Terminate == \E d \in Ids, r \in DispatchResponses : Dispatch("Terminate", d, r)
Park == \E d \in Ids, r \in DispatchResponses : Dispatch("Park", d, r)
UnPark == \E d \in Ids, r \in DispatchResponses : Dispatch("UnPark", d, r)

\* WaitUntil of the latest variant, called directly
WaitUntil ==
    \E d \in Ids, t \in (-1)..MaxTries, iv \in (-1)..MaxInterval, st \in Statuses :
        /\ pc = "idle" /\ variant = "latest"
        /\ op' = "WaitUntil" /\ id' = d /\ tries' = t /\ intervalSeconds' = iv /\ status' = st
        /\ UNCHANGED <<variant, res, fres, lastResponse, lastStatusCode,
                       dispatches, sleeps, fetches, slept, firstMatch, aside>>
        /\ LoopTest(0, t, ConvergenceTimeout(d, st, iv, t), "")

\* variation: the sleep sits between attempts only, none before the first
SleepSeconds_BetweenOnly(n, iv) == IF n = 0 THEN 0 ELSE iv

\* variation: the wait grows with the attempts made
SleepSeconds_Backoff(n, iv) == iv * (n + 1)

\* the seconds iteration n asks time.Sleep for
SleepSeconds(n, iv) == iv

\* variation: the loop goes to the fetch without sleeping
Sleep_Skipped ==
    /\ pc = "sleep"
    /\ pc' = "fetch"
    /\ UNCHANGED <<variant, op, id, tries, intervalSeconds, status, i, res, fres,
                   lastResponse, lastStatusCode, err, retId, retDb,
                   dispatches, sleeps, fetches, slept, firstMatch, aside>>

\* time.Sleep(time.Duration(intervalSeconds) * time.Second)
Sleep ==
    /\ pc = "sleep"
    /\ pc' = "fetch"
    /\ sleeps' = sleeps + 1
    /\ slept' = slept + SleepSeconds(i, intervalSeconds)
    /\ UNCHANGED <<variant, op, id, tries, intervalSeconds, status, i, res, fres,
                   lastResponse, lastStatusCode, err, retId, retDb,
                   dispatches, fetches, firstMatch, aside>>

\* variation: the error of a fetch is returned, not waited out
WaitUntilFetch_AbortOnError ==
    \E r \in FetchResponses :
        /\ pc = "fetch" /\ op \in {"CreateDb", "Park", "UnPark", "WaitUntil"}
        /\ fres' = r /\ fetches' = fetches + 1
        /\ firstMatch' = IF firstMatch = 0 /\ IsTarget(op, status, r)
                         THEN fetches + 1 ELSE firstMatch
        /\ UNCHANGED <<variant, op, id, tries, intervalSeconds, status, res,
                       lastResponse, lastStatusCode, dispatches, sleeps, slept,
                       fvars, cvars, tvars, qvars, callerVerbose>>
        /\ LET f == FindDb(variant, id, r)
           IN  IF f.err # Nil
               THEN /\ UNCHANGED i
                    /\ NoLogging
                    /\ Return(f.err, "", ZeroDataBase)
               ELSE IF StatusMatches(f.db, status)
               THEN /\ UNCHANGED i
                    /\ NoLogging
                    /\ Return(Nil, ReturnedId(variant, op, id), f.db)
               ELSE /\ Log(WaitLog(client.verbose, id, f, tries - i - 1))
                    /\ LoopTest(i + 1, tries,
                                Exhausted(variant, op, id, status, intervalSeconds, tries),
                                ReturnedId(variant, op, id))

\* the rest of one iteration of waitUntil / WaitUntil
WaitUntilFetch ==
    \E r \in FetchResponses :
        /\ pc = "fetch" /\ op \in {"CreateDb", "Park", "UnPark", "WaitUntil"}
        /\ fres' = r /\ fetches' = fetches + 1
        /\ firstMatch' = IF firstMatch = 0 /\ IsTarget(op, status, r)
                         THEN fetches + 1 ELSE firstMatch
        /\ UNCHANGED <<variant, op, id, tries, intervalSeconds, status, res,
                       lastResponse, lastStatusCode, dispatches, sleeps, slept,
                       fvars, cvars, tvars, qvars, callerVerbose>>
        /\ LET f == FindDb(variant, id, r)
           IN  IF f.err = Nil /\ StatusMatches(f.db, status)
               THEN /\ UNCHANGED i
                    /\ NoLogging
                    /\ Return(Nil, ReturnedId(variant, op, id), f.db)
               ELSE /\ Log(WaitLog(client.verbose, id, f, tries - i - 1))
                    /\ LoopTest(i + 1, tries,
                                Exhausted(variant, op, id, status, intervalSeconds, tries),
                                ReturnedId(variant, op, id))

\* what the latest Terminate keeps of a response that is neither 200 nor 401
LastOf(e) == [kind |-> e.kind, code |-> e.code, payload |-> e.payload]
\* what astra.go keeps of it: fmt.Sprintf("%v", resObj["errors"])
LastErrors(body) == [kind |-> "errors", code |-> 0, payload |-> MapErrors(body)]

\* the rest of one iteration of the loop of Terminate
TerminateFetch ==
    \E r \in FetchResponses :
        /\ pc = "fetch" /\ op = "Terminate"
        /\ fres' = r /\ fetches' = fetches + 1
        /\ firstMatch' = IF firstMatch = 0 /\ IsTarget(op, status, r)
                         THEN fetches + 1 ELSE firstMatch
        /\ UNCHANGED <<variant, op, id, tries, intervalSeconds, status, res,
                       dispatches, sleeps, slept, fvars, cvars, tvars, qvars, callerVerbose>>
        /\ IF r.failed
           THEN /\ UNCHANGED <<i, lastResponse, lastStatusCode>>
                /\ NoLogging
                /\ Return(TransportFailure({"id"}, id), "", ZeroDataBase)
           ELSE /\ lastStatusCode' = r.StatusCode
                /\ IF NotFound(r.StatusCode)
                   THEN /\ UNCHANGED <<i, lastResponse>>
                        /\ NoLogging
                        /\ Return(Nil, "", ZeroDataBase)
                   ELSE IF r.StatusCode = 200
                   THEN /\ UNCHANGED lastResponse
                        /\ IF ~DecodeDataBaseOk(r.body)
                           THEN /\ UNCHANGED i
                                /\ NoLogging
                                /\ Return(DecodeFailure({}, 0), "", ZeroDataBase)
                           ELSE IF DeletedEnough(DecodeDataBase(r.body))
                           THEN /\ UNCHANGED i
                                /\ IF variant = "latest" /\ client.verbose
                                   THEN Log(DeletedLog(id))
                                   ELSE NoLogging
                                /\ Return(Nil, "", ZeroDataBase)
                           ELSE /\ Log(NotDeletedLog(client.verbose, id))
                                /\ LoopTest(i + 1, tries,
                                            Exhausted(variant, op, id, status, intervalSeconds, tries), "")
                   ELSE IF variant = "astra" /\ ~DecodeMapOk(r.body)
                   THEN /\ UNCHANGED <<i, lastResponse>>
                        /\ NoLogging
                        /\ Return(DecodeFailure({"code"}, r.StatusCode), "", ZeroDataBase)
                   ELSE /\ lastResponse' = IF variant = "astra"
                                           THEN LastErrors(r.body)
                                           ELSE LastOf(readErrorFromResponse(r))
                        /\ Log(OtherCodeLog(client.verbose, id))
                        /\ LoopTest(i + 1, tries,
                                    Exhausted(variant, op, id, status, intervalSeconds, tries), "")

\* Resize and ResetPassword: one request, no poll
OneShot(o, argId, r) ==
    /\ pc = "idle"
    /\ op' = o /\ id' = argId /\ res' = r /\ dispatches' = dispatches + 1
    /\ UNCHANGED <<variant, tries, intervalSeconds, status, i, fres, lastResponse,
                   lastStatusCode, sleeps, fetches, slept, firstMatch, aside>>
    /\ Return(DispatchError(variant, o, argId, r), "", ZeroDataBase)

Resize == \E d \in Ids, r \in DispatchResponses : OneShot("Resize", d, r)
ResetPassword == \E d \in Ids, r \in DispatchResponses : OneShot("ResetPassword", d, r)

Next ==
    \/ CreateDb
    \/ Terminate
    \/ Park
    \/ UnPark
    \/ WaitUntil
    \/ Resize
    \/ ResetPassword
    \/ Sleep
    \/ WaitUntilFetch
    \/ TerminateFetch

Spec == Init /\ [][Next]_vars

\* the same calls on a client obtained from Authenticate with either flag
InitLog ==
    /\ variant \in Variants
    /\ op = "none" /\ pc = "idle"
    /\ id = "" /\ tries = 0 /\ intervalSeconds = 0 /\ status = "" /\ i = 0
    /\ res = NoResponse /\ fres = NoResponse
    /\ lastResponse = NoLast /\ lastStatusCode = 0
    /\ err = Pending /\ retId = "" /\ retDb = ZeroDataBase
    /\ dispatches = 0 /\ sleeps = 0 /\ fetches = 0 /\ slept = 0 /\ firstMatch = 0
    /\ fmtEs = <<>> /\ fmtOut = "" /\ fmtCalls = 0
    /\ callerVerbose \in BOOLEAN
    /\ client = Authenticate(variant, callerVerbose)
    /\ plan = [p \in Procs |-> [id |-> IdOf(p), tries |-> 0, intervalSeconds |-> 0,
                                status |-> "", script |-> <<>>]]
    /\ remote = [d \in ConcIds |-> <<>>]
    /\ frames = [f \in Frames |-> ZeroFrame]
    /\ proc = [p \in Procs |-> IdleProc]
    /\ logs = 0 /\ lastLog = NoLog
    /\ PairIdle
    /\ ListIdle

SpecLog == InitLog /\ [][Next]_vars

\* the two variants of Terminate on the same responses
InitPair ==
    /\ variant = "astra"
    /\ op = "none" /\ pc = "idle"
    /\ id = "" /\ tries = 0 /\ intervalSeconds = 0 /\ status = "" /\ i = 0
    /\ res = NoResponse /\ fres = NoResponse
    /\ lastResponse = NoLast /\ lastStatusCode = 0
    /\ err = Pending /\ retId = "" /\ retDb = ZeroDataBase
    /\ dispatches = 0 /\ sleeps = 0 /\ fetches = 0 /\ slept = 0 /\ firstMatch = 0
    /\ fmtEs = <<>> /\ fmtOut = "" /\ fmtCalls = 0
    /\ ConcIdle
    /\ callerVerbose = FALSE /\ logs = 0 /\ lastLog = NoLog
    /\ PairIdle
    /\ ListIdle

NextPair ==
    \/ PairTerminate
    \/ PairIteration

SpecPair == InitPair /\ [][NextPair]_vars

(***************************************************************************)
(* FormatErrors of the latest variant, as a function of its argument, and  *)
(* a specification that calls it on every error list up to MaxErrors.      *)
(***************************************************************************)
\* fmt.Sprintf("ID: %v Text: '%v'", e.ID, e.Message)
Sprintf(e) == "ID: " \o ToString(e.ID) \o " Text: '" \o e.Message \o "'"

\* strings.Join(elems, sep)
RECURSIVE Join(_, _)
Join(elems, sep) ==
    IF Len(elems) = 0 THEN ""
    ELSE IF Len(elems) = 1 THEN elems[1]
    ELSE elems[1] \o sep \o Join(Tail(elems), sep)

\* variation: the separator and the layout CreateDb of astra.go uses
FormatErrors_LikeCreateDb(es) ==
    Join([k \in 1..Len(es) |->
             "ID: " \o ToString(es[k].ID) \o ", Message: " \o es[k].Message], ",")

FormatErrors(es) ==
    LET formatted == [k \in 1..Len(es) |-> Sprintf(es[k])]
    IN  Join(formatted, ", ")

\* the error lists FormatErrors is called on
Errors == {APIError(n, m) : n \in {1, 2}, m \in {"a", "b"}}
ErrorSeqs == UNION {[1..k -> Errors] : k \in 0..MaxErrors}

InitFormat ==
    /\ variant = "latest"
    /\ op = "none" /\ pc = "idle"
    /\ id = "" /\ tries = 0 /\ intervalSeconds = 0 /\ status = "" /\ i = 0
    /\ res = NoResponse /\ fres = NoResponse
    /\ lastResponse = NoLast /\ lastStatusCode = 0
    /\ err = Pending /\ retId = "" /\ retDb = ZeroDataBase
    /\ dispatches = 0 /\ sleeps = 0 /\ fetches = 0 /\ slept = 0 /\ firstMatch = 0
    /\ fmtEs \in ErrorSeqs /\ fmtOut = "" /\ fmtCalls = 0
    /\ ConcIdle
    /\ callerVerbose = FALSE /\ logs = 0 /\ lastLog = NoLog
    /\ PairIdle
    /\ ListIdle

\* one call FormatErrors(fmtEs); the slice is read, never written
FormatCall ==
    /\ fmtCalls < MaxCalls
    /\ fmtOut' = FormatErrors(fmtEs)
    /\ fmtCalls' = fmtCalls + 1
    /\ UNCHANGED <<variant, op, pc, id, tries, intervalSeconds, status, i,
                   res, fres, lastResponse, lastStatusCode, err, retId, retDb,
                   dispatches, sleeps, fetches, slept, firstMatch, fmtEs, cvars, lvars, tvars, qvars>>

NextFormat == FormatCall

SpecFormat == InitFormat /\ [][NextFormat]_vars

(***************************************************************************)
(* ListDb as a function of its arguments and of the response, and a        *)
(* specification that calls it on every combination of them.               *)
(***************************************************************************)
\* the arguments ListDb is called with; the second include value holds a
\* character that url.QueryEscape rewrites
Includes == {"", "nonterminated", "a b"}
Providers == {"", "GCP"}
StartingAfters == {"", "db-123"}
Limits == {-1, 0, 1, 10}

\* q.Add(key, value) on a query that has no value for key yet
QueryAdd(q, key, value) == q \cup {[key |-> key, value |-> value]}

\* variation: a limit of zero is sent as well
QueryOf_LimitFromZero(a) ==
    LET q0 == {}
        q1 == IF Len(a.include) > 0 THEN QueryAdd(q0, "include", a.include) ELSE q0
        q2 == IF Len(a.provider) > 0 THEN QueryAdd(q1, "provider", a.provider) ELSE q1
        q3 == IF Len(a.startingAfter) > 0
              THEN QueryAdd(q2, "starting_after", a.startingAfter) ELSE q2
    IN  IF a.limit >= 0 THEN QueryAdd(q3, "limit", ToString(a.limit)) ELSE q3

\* the pairs ListDb adds to the empty query of serviceURL
QueryOf(a) ==
    LET q0 == {}
        q1 == IF Len(a.include) > 0 THEN QueryAdd(q0, "include", a.include) ELSE q0
        q2 == IF Len(a.provider) > 0 THEN QueryAdd(q1, "provider", a.provider) ELSE q1
        q3 == IF Len(a.startingAfter) > 0
              THEN QueryAdd(q2, "starting_after", a.startingAfter) ELSE q2
    IN  IF a.limit > 0 THEN QueryAdd(q3, "limit", ToString(a.limit)) ELSE q3

\* url.QueryEscape on the values in use: a space becomes "+", letters, digits
\* and "-" stay
QueryEscape(s) == IF s = "a b" THEN "a+b" ELSE s
\* the keys in the order Values.Encode sorts them
SortedKeys == <<"include", "limit", "provider", "starting_after">>
\* q.Encode(): key=value of every pair, sorted by key, joined by "&"
Encode(q) ==
    LET present == SelectSeq(SortedKeys, LAMBDA k : \E kv \in q : kv.key = k)
        text(k) == k \o "=" \o QueryEscape((CHOOSE kv \in q : kv.key = k).value)
    IN  Join([n \in 1..Len(present) |-> text(present[n])], "&")

\* the bodies a list request may be answered with: a JSON array of database
\* documents, a structured error document, bytes that are not JSON
ListBody(shape, dbs, es) == [shape |-> shape, dbs |-> dbs, errors |-> es]
ListBodies ==
    {ListBody("list", <<>>, <<>>),
     ListBody("list", <<DataBase("db-123", Active), DataBase("db-9", Parked)>>, <<>>),
     ListBody("errors", <<>>, <<APIError(1, "a")>>),
     ListBody("garbage", <<>>, <<>>)}
ListCodes == {200, 401, 500}
ListTransportError == [failed |-> TRUE, StatusCode |-> 0, body |-> ListBody("none", <<>>, <<>>)]
ListResponses ==
    {ListTransportError} \cup
    {[failed |-> FALSE, StatusCode |-> c, body |-> b] : c \in ListCodes, b \in ListBodies}

\* Decode(&dbs) with dbs a slice of databases: a JSON array only
DecodeListOk(body) == body.shape = "list"
\* the error of a list response that is not a 200: a map in astra.go, an
\* ErrorResponse in the latest variant; a JSON object decodes into both
ListRejection(v, r) ==
    IF r.body.shape # "errors" THEN DecodeFailure({"code"}, r.StatusCode)
    ELSE RemoteRejection(r.StatusCode, Payload("list", r.body.errors))

\* what ListDb returns for the response r
ListDbReturns(v, r) ==
    IF r.failed THEN [dbs |-> <<>>, err |-> TransportFailure({}, "")]
    ELSE IF r.StatusCode # 200 THEN [dbs |-> <<>>, err |-> ListRejection(v, r)]
    ELSE IF ~DecodeListOk(r.body) THEN [dbs |-> <<>>, err |-> DecodeFailure({}, 0)]
    ELSE [dbs |-> r.body.dbs, err |-> Nil]

InitList ==
    /\ variant \in Variants
    /\ op = "none" /\ pc = "idle"
    /\ id = "" /\ tries = 0 /\ intervalSeconds = 0 /\ status = "" /\ i = 0
    /\ res = NoResponse /\ fres = NoResponse
    /\ lastResponse = NoLast /\ lastStatusCode = 0
    /\ err = Pending /\ retId = "" /\ retDb = ZeroDataBase
    /\ dispatches = 0 /\ sleeps = 0 /\ fetches = 0 /\ slept = 0 /\ firstMatch = 0
    /\ fmtEs = <<>> /\ fmtOut = "" /\ fmtCalls = 0
    /\ ConcIdle
    /\ callerVerbose = FALSE /\ logs = 0 /\ lastLog = NoLog
    /\ PairIdle
    /\ listArgs \in {ListArgs(n, p, s, l) : n \in Includes, p \in Providers,
                                            s \in StartingAfters, l \in Limits}
    /\ listQuery = NoQuery /\ listRes = NoResponse
    /\ listOut = NoListOut /\ listPc = "idle"

\* one call ListDb(include, provider, startingAfter, limit)
ListDb ==
    \E r \in ListResponses :
        /\ listPc = "idle"
        /\ listQuery' = [params |-> QueryOf(listArgs), raw |-> Encode(QueryOf(listArgs))]
        /\ listRes' = r
        /\ listOut' = ListDbReturns(variant, r)
        /\ listPc' = "done"
        /\ UNCHANGED <<variant, op, pc, id, tries, intervalSeconds, status, i,
                       res, fres, lastResponse, lastStatusCode, err, retId, retDb,
                       dispatches, sleeps, fetches, slept, firstMatch,
                       fvars, cvars, lvars, tvars, listArgs>>

NextList == ListDb

SpecList == InitList /\ [][NextList]_vars

(***************************************************************************)
(* Properties.                                                             *)
(***************************************************************************)
BlockingOps == {"CreateDb", "Terminate", "Park", "UnPark"}
WaitOps == {"CreateDb", "Park", "UnPark", "WaitUntil"}
\* the code the remote side answers an accepted request with
ExpectedCode(o) == IF o = "CreateDb" THEN 201 ELSE 202
\* the status a blocking operation converges to
TargetOf(o) == IF o = "Park" THEN Parked ELSE Active
\* the mutating request was accepted, or there was none to send
PollStarted ==
    \/ op = "WaitUntil"
    \/ op \in BlockingOps /\ ~res.failed /\ res.StatusCode = ExpectedCode(op)
Max0(n) == IF n > 0 THEN n ELSE 0

\* C1: in waitUntil / WaitUntil, when the N-th fetch is the first one that
\* shows the target status, the poll has returned nil after exactly N fetches
\* and N sleeps of the interval, interval * N seconds in all; and it returns
\* nil in no other way.
C1_SuccessAtNthFetch ==
    op \in WaitOps =>
        /\ firstMatch # 0 =>
              /\ pc = "done" /\ err = Nil
              /\ firstMatch <= tries
              /\ fetches = firstMatch /\ sleeps = firstMatch
              /\ slept = intervalSeconds * firstMatch
        /\ (pc = "done" /\ err = Nil) => firstMatch = fetches /\ firstMatch >= 1

C1_Witness ==
    /\ op = "WaitUntil" /\ pc = "done" /\ err = Nil
    /\ firstMatch = 3 /\ fetches = 3 /\ sleeps = 3
    /\ intervalSeconds = 2 /\ slept = 6

\* C2: a poll (waitUntil / WaitUntil or the loop of Terminate) that never sees a
\* target status nor a 401 ends with the convergence-timeout error after
\* exactly max-attempts fetches, never earlier and never later.
C2_TimeoutExactness ==
    /\ PollStarted => fetches <= Max0(tries)
    /\ (PollStarted /\ pc = "done" /\ firstMatch = 0) =>
           /\ err.kind = "ConvergenceTimeout"
           /\ fetches = Max0(tries)

\* C3: in the loop of Terminate a fetch answered 401 at attempt k makes
\* Terminate return nil at attempt k, with k sleeps and k fetches made and
\* none after it.
C3_NotFoundIsSuccess ==
    (op = "Terminate" /\ fetches > 0 /\ ~fres.failed /\ fres.StatusCode = 401) =>
        /\ pc = "done" /\ err = Nil
        /\ fetches = i + 1 /\ sleeps = fetches /\ fetches <= tries
        /\ res.StatusCode = 202

C3_Witness ==
    /\ op = "Terminate" /\ pc = "done" /\ err = Nil
    /\ fres.StatusCode = 401 /\ fetches = 3 /\ sleeps = 3

C6_SuccessImpliesConvergence ==
    (op \in {"CreateDb", "Park", "UnPark"} /\ pc = "done" /\ err = Nil) =>
        /\ ~res.failed /\ res.StatusCode = ExpectedCode(op)
        /\ fetches >= 1 /\ fetches <= tries /\ sleeps = fetches
        /\ ~fres.failed /\ fres.StatusCode = 200
        /\ fres.body.shape = "db" /\ fres.body.db.Status = TargetOf(op)

C6_Witness ==
    /\ op = "Park" /\ pc = "done" /\ err = Nil
    /\ fres.body.db.Status = Parked /\ fetches = 2

\* C7: when park is answered 202 and no fetch within the budget reports
\* PARKED, Park returns the convergence-timeout error, whose text names
\* attempts * interval seconds; so does every exhausted waitUntil / WaitUntil.
C7_ParkTimeout ==
    /\ (op = "Park" /\ pc = "done" /\ ~res.failed /\ res.StatusCode = 202
          /\ firstMatch = 0) =>
           /\ err.kind = "ConvergenceTimeout"
           /\ "seconds" \in err.names
           /\ err.seconds = tries * intervalSeconds
           /\ tries = 30 /\ intervalSeconds = 30 /\ fetches = 30
    /\ (op \in WaitOps /\ pc = "done" /\ err.kind = "ConvergenceTimeout") =>
           /\ "seconds" \in err.names
           /\ err.seconds = tries * intervalSeconds

C7_Witness ==
    /\ op = "Park" /\ pc = "done" /\ res.StatusCode = 202
    /\ err.kind = "ConvergenceTimeout" /\ err.seconds = 900 /\ fetches = 30

\* the response to the mutating request of the call carries a code the
\* operation does not accept
Rejected ==
    /\ op \in BlockingOps \cup {"Resize", "ResetPassword"}
    /\ ~res.failed
    /\ CASE op \in BlockingOps -> res.StatusCode # ExpectedCode(op)
         [] op = "ResetPassword" -> res.StatusCode # 200
         [] op = "Resize" -> res.StatusCode > 299
\* the operation decodes the error body into an ErrorResponse (else a map)
DecodesTyped == variant = "latest" \/ op \in {"CreateDb", "Terminate"}
BodyParses ==
    IF DecodesTyped THEN DecodeErrorResponseOk(res.body) ELSE DecodeMapOk(res.body)

\* C8 (as stated): whenever the response to a mutating request has a code
\* outside the expected set (201 create, 202 terminate/park/unpark, 200
\* resize/reset-password), the operation fails with a remote-rejection error
\* holding the code observed and the full error list, whatever the body.
C8_RejectionCarriesPayload_Original ==
    (/\ op \in BlockingOps \cup {"Resize", "ResetPassword"}
     /\ ~res.failed
     /\ res.StatusCode # (IF op \in BlockingOps THEN ExpectedCode(op) ELSE 200)) =>
        /\ pc = "done"
        /\ err.kind = "RemoteRejection"
        /\ err.code = res.StatusCode
        /\ err.payload.errors = res.body.errors

\* C8 (amended): whenever the response carries a code the operation does
\* not accept and the body parses into the type the operation decodes it to,
\* the operation fails with a remote-rejection error holding the code observed
\* and, for a structured error body, its full error list; when the body does
\* not parse, it fails with a decode error that holds no error list.
C8_RejectionCarriesPayload ==
    Rejected =>
        /\ pc = "done" /\ fetches = 0
        /\ IF BodyParses
           THEN /\ err.kind = "RemoteRejection"
                /\ "code" \in err.names /\ err.code = res.StatusCode
                /\ "errors" \in err.names
                /\ res.body.shape = "errors" => err.payload = Payload("list", res.body.errors)
           ELSE /\ err.kind = "DecodeFailure"
                /\ err.payload = NoPayload

C8_Witness ==
    /\ op = "CreateDb" /\ pc = "done" /\ res.StatusCode = 401
    /\ res.body.shape = "errors" /\ Len(res.body.errors) = 2
    /\ err.kind = "RemoteRejection" /\ err.code = 401
    /\ err.payload.errors = res.body.errors

\* C9: CreateDb, Terminate, Park and UnPark send exactly one mutating
\* request per call; when it fails (transport error or unexpected code) the
\* operation has returned an error with no sleep and no fetch made.
C9_DispatchFailureAborts ==
    /\ dispatches <= 1
    /\ op \in BlockingOps => dispatches = 1
    /\ (op \in BlockingOps /\ (res.failed \/ res.StatusCode # ExpectedCode(op))) =>
           /\ pc = "done" /\ err # Nil /\ err # Pending
           /\ sleeps = 0 /\ fetches = 0 /\ slept = 0

C9_Witness ==
    /\ op = "Terminate" /\ pc = "done" /\ res.failed
    /\ err.kind = "TransportFailure" /\ dispatches = 1 /\ fetches = 0

\* C10: the create request is treated as accepted (the poll is entered) if
\* and only if the response code is 201, the terminate, park and unpark
\* requests if and only if it is 202; any other code, 200 included, is a
\* rejection that ends the call before the poll.
C10_AcceptedCodes ==
    (op \in BlockingOps /\ ~res.failed) =>
        IF res.StatusCode = ExpectedCode(op)
        THEN sleeps >= 1 \/ pc = "sleep"
        ELSE /\ pc = "done" /\ sleeps = 0 /\ fetches = 0
             /\ err.kind \in {"RemoteRejection", "DecodeFailure"}

C10_Witness ==
    /\ op = "Park" /\ pc = "done" /\ res.StatusCode = 200
    /\ err.kind = "RemoteRejection" /\ sleeps = 0

\* C11: Resize and ResetPassword return nil if and only if the response code
\* is exactly 200; any other code (201, 204, ...) makes them fail.
C11_OneShotAcceptsOnly200 ==
    (op \in {"Resize", "ResetPassword"} /\ pc = "done" /\ ~res.failed) =>
        (err = Nil <=> res.StatusCode = 200)

FetchBodyUnparsed ==
    /\ fetches > 0 /\ ~fres.failed /\ fres.body.shape = "garbage"
    /\ ~(op = "Terminate" /\ fres.StatusCode = 401)

\* C13 (as stated): whenever a response body fails to parse, in any
\* operation and also in a status fetch of a poll, the failure is returned to
\* the caller at once and no further attempt is made.
C13_DecodeFailureSurfaces_Original ==
    /\ (Rejected /\ ~BodyParses) => (pc = "done" /\ err.kind = "DecodeFailure")
    /\ FetchBodyUnparsed => (pc = "done" /\ err.kind = "DecodeFailure")

\* C13 (amended): a body that fails to parse is returned to the caller at
\* once, with no further attempt, when it answers a mutating request and when
\* it answers a fetch of the loop of Terminate with 200 (in astra.go also with
\* a code other than 200 and 401); in waitUntil / WaitUntil, and in Terminate
\* of the latest variant for a code other than 200 and 401, it is absorbed:
\* it takes one attempt and the poll goes on.
C13_DecodeFailureSurfaces ==
    /\ (Rejected /\ ~BodyParses) =>
           (pc = "done" /\ err.kind = "DecodeFailure" /\ fetches = 0 /\ dispatches = 1)
    /\ FetchBodyUnparsed =>
           IF op = "Terminate" /\ (fres.StatusCode = 200 \/ variant = "astra")
           THEN pc = "done" /\ err.kind = "DecodeFailure" /\ fetches = i + 1
           ELSE /\ i = fetches
                /\ IF i < tries THEN pc \in {"sleep", "fetch"}
                   ELSE pc = "done" /\ err.kind = "ConvergenceTimeout"

C13_Witness ==
    /\ op = "Terminate" /\ pc = "done" /\ err.kind = "DecodeFailure"
    /\ fres.StatusCode = 200 /\ fres.body.shape = "garbage" /\ fetches = 2

\* C14: in Terminate a status fetch that fails at the transport level takes
\* exactly one attempt and the poll goes on; it never makes Terminate return
\* an error before the budget is used up.
C14_TransportFailureIsTransient ==
    (op = "Terminate" /\ fetches > 0 /\ fres.failed) =>
        /\ i = fetches
        /\ pc = "done" => (fetches = tries /\ err.kind = "ConvergenceTimeout")

\* the rendering of one error and of a list, built from the last element
Rendered(e) == "ID: " \o ToString(e.ID) \o " Text: '" \o e.Message \o "'"
RECURSIVE Listing(_)
Listing(es) ==
    IF Len(es) = 0 THEN ""
    ELSE IF Len(es) = 1 THEN Rendered(es[1])
    ELSE Listing(SubSeq(es, 1, Len(es) - 1)) \o ", " \o Rendered(es[Len(es)])

\* C15: after every call, first or repeated, FormatErrors has returned the
\* elements rendered as "ID: <id> Text: '<message>'", joined by ", " in the
\* order of the list, the empty string for the empty list.
C15_FormatErrors ==
    fmtCalls >= 1 =>
        /\ fmtOut = Listing(fmtEs)
        /\ fmtEs = <<>> => fmtOut = ""
        /\ fmtEs = <<APIError(2, "b")>> => fmtOut = "ID: 2 Text: 'b'"
        /\ fmtEs = <<APIError(1, "a"), APIError(2, "b")>> =>
               fmtOut = "ID: 1 Text: 'a', ID: 2 Text: 'b'"
        /\ fmtEs = <<APIError(2, "b"), APIError(1, "a")>> =>
               fmtOut = "ID: 2 Text: 'b', ID: 1 Text: 'a'"

C15_Witness ==
    /\ fmtCalls = 2
    /\ fmtEs = <<APIError(1, "a"), APIError(2, "b")>>
    /\ fmtOut = "ID: 1 Text: 'a', ID: 2 Text: 'b'"

\* what the call pl makes of the responses pl.script when nothing else runs:
\* n is the value of i, k the number of fetches made so far
RECURSIVE SoloFrom(_, _, _)
SoloFrom(pl, n, k) ==
    IF ~(n < pl.tries)
    THEN [err |-> ConvergenceTimeout(pl.id, pl.status, pl.intervalSeconds, pl.tries),
          db |-> ZeroDataBase, fetches |-> k]
    ELSE LET f == FindDb("latest", pl.id, pl.script[k + 1])
         IN  IF f.err = Nil /\ f.db.Status = pl.status
             THEN [err |-> Nil, db |-> f.db, fetches |-> k + 1]
             ELSE SoloFrom(pl, n + 1, k + 1)
Solo(pl) == SoloFrom(pl, 0, 0)

\* C16: under every interleaving of two calls of WaitUntil on different
\* databases, each call keeps its own id, budget, target and counter, takes
\* responses of its own database only, and returns the error, the snapshot and
\* the number of fetches it returns when run alone on the same responses; the
\* fields of the client stay as they were.
C16_ConcurrentPollsIndependent ==
    /\ client = TheClient
    /\ \A p \in Procs :
        /\ proc[p].fetches = Len(plan[p].script) - Len(remote[plan[p].id])
        /\ proc[p].pc \in {"sleep", "fetch"} =>
              /\ frames[Frame(p)].id = plan[p].id
              /\ frames[Frame(p)].tries = plan[p].tries
              /\ frames[Frame(p)].status = plan[p].status
              /\ frames[Frame(p)].i = proc[p].fetches
        /\ proc[p].pc = "done" =>
              /\ proc[p].err = Solo(plan[p]).err
              /\ proc[p].db = Solo(plan[p]).db
              /\ proc[p].fetches = Solo(plan[p]).fetches

\* the second call has timed out after two fetches while the first, having
\* fetched once without a match, is about to fetch again and will succeed
C16_Witness ==
    /\ proc[2].pc = "done" /\ proc[2].err.kind = "ConvergenceTimeout" /\ proc[2].fetches = 2
    /\ proc[1].pc = "fetch" /\ proc[1].fetches = 1 /\ plan[1].tries = 2
    /\ Solo(plan[1]).err = Nil /\ Solo(plan[1]).fetches = 2

\* twice the iterations left, less one once the sleep of the current one is done
PollMeasure == 2 * (tries - i) - (IF pc = "fetch" THEN 1 ELSE 0)

\* one step of a blocking operation
TerminationStep ==
    /\ pc = "idle" => pc' \in {"sleep", "done"}
    /\ pc \in {"sleep", "fetch"} =>
          \/ pc' = "done"
          \/ /\ pc' \in {"sleep", "fetch"} /\ tries' = tries
             /\ PollMeasure' < PollMeasure /\ PollMeasure' > 0
    /\ (pc # "done" /\ pc' = "done" /\ op' \in BlockingOps \cup {"WaitUntil"}) =>
          \/ err' = Nil /\ fetches' > 0 /\ IsTarget(op', status', fres')
          \/ err'.kind = "ConvergenceTimeout" /\ ~(i' < tries')
          \/ /\ err'.kind \in {"RemoteRejection", "TransportFailure", "DecodeFailure"}
             /\ fetches' = 0 \/ op' = "Terminate"

\* C17: a blocking operation that has not returned can always take a step,
\* every step either returns or strictly lowers a positive measure of the
\* iterations left, and a return is a match, the exhaustion of the tries or
\* an aborting error; so, each request returning, every call returns.
C17_BlockingOpsTerminate ==
    /\ [](pc \in {"sleep", "fetch"} => ENABLED (Sleep \/ WaitUntilFetch \/ TerminateFetch))
    /\ [][TerminationStep]_vars

C17_Witness ==
    /\ op = "UnPark" /\ pc = "done" /\ err.kind = "ConvergenceTimeout"
    /\ fetches = UnParkTries /\ i = UnParkTries

\* C18: in every poll loop the sleeps done are as many as the fetches issued,
\* or one more exactly when the loop stands between a sleep and its fetch;
\* every sleep, the first one as well, was asked for the full interval.
C18_SleepPrecedesEveryFetch ==
    /\ pc = "fetch" => sleeps = fetches + 1
    /\ pc # "fetch" => sleeps = fetches
    /\ slept = intervalSeconds * sleeps

\* Park has slept a second time, after a fetch that failed, and is about to fetch
C18_Witness ==
    /\ op = "Park" /\ pc = "fetch" /\ fres.failed
    /\ fetches = 1 /\ sleeps = 2 /\ slept = 2 * ParkInterval

\* the last fetch of the poll failed: transport error or a code other than 200
FetchFailed == fetches > 0 /\ (fres.failed \/ fres.StatusCode # 200)

\* C19: in waitUntil / WaitUntil every fetch so far has used up one attempt;
\* after a failed fetch the loop goes on while attempts are left and returns,
\* with the exhaustion error, only when the failed fetch was the last attempt;
\* a fetch that shows the target within the budget ends the poll with success
\* whatever failed before it.
C19_FetchFailuresAbsorbed ==
    op \in WaitOps =>
        /\ FetchFailed =>
              /\ i = fetches
              /\ i < tries => pc \in {"sleep", "fetch"}
              /\ pc = "done" => (fetches = tries /\ err.kind = "ConvergenceTimeout")
        /\ (fetches > 0 /\ IsTarget(op, status, fres)) =>
              (pc = "done" /\ err = Nil /\ fetches = i + 1 /\ fetches <= tries)

\* UnPark goes on after the transport failure of its first fetch
C19_Witness ==
    /\ op = "UnPark" /\ fres.failed /\ fetches = 1 /\ i = 1 /\ pc = "sleep"

\* the last fetch of Terminate was answered with a code other than 200 and 401
OtherRejection == op = "Terminate" /\ fetches > 0 /\ ~fres.failed /\ fres.StatusCode \notin {200, 401}

\* C20: in the loop of Terminate a response with a code other than 200 and
\* 401, whatever its body, uses up one attempt and the loop goes on; the
\* operation ends after it only by the exhaustion of the tries.
C20_OtherRejectionsRetried ==
    OtherRejection =>
        /\ i = fetches
        /\ pc = "done" => (fetches = tries /\ err.kind = "ConvergenceTimeout")

\* the attempts each blocking operation is given
FixedTries ==
    CASE op = "CreateDb" /\ variant = "astra" -> 20
      [] op = "CreateDb" /\ variant = "latest" -> 30
      [] op = "Park" -> 30
      [] op = "UnPark" -> 60
      [] op = "Terminate" -> 30
      [] OTHER -> tries

\* a step of a poll leaves the tries as they are
TriesKept == pc \in {"sleep", "fetch"} => tries' = tries

\* C21: in every state of a poll the fetches issued are at most the tries
\* (none when the tries of WaitUntil are not positive), the tries are 20 or 30
\* for CreateDb, 30 for Park, 60 for UnPark, 30 for Terminate, and no step of
\* a poll changes them.
C21_BoundedAttempts ==
    /\ [](PollStarted => (fetches <= Max0(tries) /\ i <= Max0(tries) /\ tries = FixedTries))
    /\ [][TriesKept]_vars

C21_Witness ==
    /\ variant = "astra" /\ op = "CreateDb" /\ pc = "done"
    /\ fetches = 20 /\ tries = 20 /\ err.kind = "ConvergenceTimeout"

\* the interval each blocking operation is given
FixedInterval ==
    CASE op = "CreateDb" /\ variant = "astra" -> 5
      [] op = "CreateDb" /\ variant = "latest" -> 30
      [] op = "Park" -> 30
      [] op = "UnPark" -> 30
      [] op = "Terminate" -> 10
      [] OTHER -> intervalSeconds

\* a step of a poll leaves the interval as it is, whatever was fetched, and a
\* sleep lasts the interval
IntervalKept ==
    pc \in {"sleep", "fetch"} =>
        /\ intervalSeconds' = intervalSeconds
        /\ sleeps' = sleeps + 1 => slept' = slept + intervalSeconds

\* C22: within one poll every sleep lasts the interval given at the start (5
\* or 30 seconds for CreateDb, 30 for Park and UnPark, 10 for Terminate, the
\* caller's for WaitUntil); no fetch, failed or mismatching, changes it.
C22_ConstantInterval ==
    /\ [](PollStarted => (intervalSeconds = FixedInterval /\ slept = sleeps * intervalSeconds))
    /\ [][IntervalKept]_vars

\* Terminate sleeps a third time after a fetch answered 404
C22_Witness ==
    /\ op = "Terminate" /\ pc = "fetch" /\ ~fres.failed /\ fres.StatusCode = 404
    /\ sleeps = 3 /\ slept = 30 /\ intervalSeconds = 10

\* the error and the id the non-blocking request of the call in progress gives
AsyncOutcome ==
    CASE op = "CreateDb" -> CreateDbAsync(res)
      [] op = "Park" -> [id |-> id, err |-> ParkAsync(id, res)]
      [] op = "UnPark" -> [id |-> id, err |-> UnparkAsync(id, res)]
\* what the blocking operation makes of the error of its non-blocking request
AsyncErrorReturned(e) ==
    CASE op = "CreateDb" -> e
      [] op = "Park" -> Wrap(e, "park db failed because")
      [] op = "UnPark" -> Wrap(e, "unpark db failed because")
\* the arguments the blocking operation hands to WaitUntil
WaitUntilArgs ==
    CASE op = "CreateDb" -> [tries |-> 30, interval |-> 30, status |-> "ACTIVE",
                             wrap |-> "create db failed because"]
      [] op = "Park" -> [tries |-> 30, interval |-> 30, status |-> "PARKED",
                         wrap |-> "unable to check status for park db because of error"]
      [] op = "UnPark" -> [tries |-> 60, interval |-> 30, status |-> "ACTIVE",
                           wrap |-> "unable to check status for unpark db because of error"]
LatestBlocking == variant = "latest" /\ op \in {"CreateDb", "Park", "UnPark"}

\* the blocking operation stands where the non-blocking request followed by
\* WaitUntil stands
DispatchThenPoll ==
    LatestBlocking =>
        LET a == AsyncOutcome
            w == WaitUntilArgs
        IN  /\ dispatches = 1
            /\ a.err # Nil =>
                  /\ pc = "done" /\ err = AsyncErrorReturned(a.err)
                  /\ fetches = 0 /\ sleeps = 0 /\ retDb = ZeroDataBase
            /\ a.err = Nil =>
                  /\ id = a.id
                  /\ tries = w.tries /\ intervalSeconds = w.interval /\ status = w.status
                  /\ pc = "done" =>
                        \/ /\ err = Nil /\ fetches > 0 /\ fetches <= w.tries
                           /\ FindDb("latest", a.id, fres).err = Nil
                           /\ FindDb("latest", a.id, fres).db.Status = w.status
                           /\ retDb = FindDb("latest", a.id, fres).db
                        \/ /\ err = Wrap(ConvergenceTimeout(a.id, w.status, w.interval, w.tries), w.wrap)
                           /\ fetches = w.tries /\ retDb = ZeroDataBase

\* a step of the poll of the blocking operation is a step of WaitUntil
WaitUntilStep ==
    (LatestBlocking /\ pc \in {"sleep", "fetch"}) =>
        \/ /\ pc = "sleep" /\ pc' = "fetch"
           /\ sleeps' = sleeps + 1 /\ fetches' = fetches /\ i' = i /\ id' = id
        \/ /\ pc = "fetch" /\ fetches' = fetches + 1 /\ sleeps' = sleeps /\ id' = id
           /\ LET f == FindDb("latest", id, fres')
              IN  IF f.err = Nil /\ f.db.Status = status
                  THEN pc' = "done" /\ i' = i
                  ELSE i' = i + 1 /\ pc' = (IF i' < tries THEN "sleep" ELSE "done")

\* C23: in the latest variant CreateDb, Park and Unpark are their non-blocking
\* request followed, only when it returned no error, by WaitUntil on the id
\* dispatched (the location for CreateDb) with 30 x 30 s ACTIVE, 30 x 30 s
\* PARKED and 60 x 30 s ACTIVE; no fetch is made before the request was
\* accepted.
C23_DispatchThenPoll ==
    /\ []DispatchThenPoll
    /\ [][WaitUntilStep]_vars

C23_Witness ==
    /\ variant = "latest" /\ op = "CreateDb" /\ pc = "done" /\ err = Nil
    /\ res.location = "db-123" /\ id = "db-123" /\ fetches = 2
    /\ retDb = DataBase("db-123", Active)

\* C24: when waitUntil / WaitUntil returns without error the database it
\* returns is the document of the last fetch, the one whose status is the
\* target; when it returns the exhaustion error it returns the zero database.
C24_ReturnedSnapshotMatches ==
    (op \in WaitOps /\ pc = "done" /\ PollStarted) =>
        /\ err = Nil =>
              /\ fetches > 0 /\ ~fres.failed /\ fres.StatusCode = 200
              /\ retDb = fres.body.db /\ retDb.Status = status
        /\ err.kind = "ConvergenceTimeout" => retDb = ZeroDataBase

\* WaitUntil returns the second document, which differs from the first
C24_Witness ==
    /\ op = "WaitUntil" /\ pc = "done" /\ err = Nil /\ fetches = 2
    /\ status = Active /\ retDb = DataBase("db-9", Active)

\* the last fetch of the poll was answered 401
Answered401 == fetches > 0 /\ ~fres.failed /\ fres.StatusCode = 401

\* C25: in the polls of CreateDb, Park, UnPark and WaitUntil a fetch answered
\* 401 never ends the poll with success, whatever its body and the target: it
\* uses up one attempt, the loop goes on while attempts are left, and when it
\* was the last attempt the operation returns the exhaustion error.
C25_NotFoundOnlyForDeletion ==
    (op \in WaitOps /\ Answered401) =>
        /\ err # Nil /\ firstMatch = 0
        /\ i = fetches
        /\ i < tries => pc \in {"sleep", "fetch"}
        /\ pc = "done" => (fetches = tries /\ err.kind = "ConvergenceTimeout")

\* Park ends in the exhaustion error after a thirtieth fetch answered 401
C25_Witness ==
    /\ op = "Park" /\ Answered401 /\ pc = "done"
    /\ fetches = 30 /\ err.kind = "ConvergenceTimeout"

\* C26: every poll started by CreateDb, Park, UnPark, Terminate or WaitUntil
\* has tries >= 1 and an interval >= 0, and the seconds the exhaustion error
\* of waitUntil / WaitUntil reports are tries * interval.
C26_BudgetWellFormed ==
    PollStarted =>
        /\ tries >= 1 /\ intervalSeconds >= 0
        /\ (op \in WaitOps /\ pc = "done" /\ err.kind = "ConvergenceTimeout") =>
              err.seconds = tries * intervalSeconds

\* the statuses from which the target st is out of reach
DeadEnds(st) == {"ERROR", Terminated, Terminating} \ {st}
\* the last fetch showed such a status
DeadEndFetched ==
    /\ fetches > 0 /\ ~fres.failed /\ fres.StatusCode = 200 /\ fres.body.shape = "db"
    /\ fres.body.db.Status \in DeadEnds(status)

\* C28: in waitUntil / WaitUntil a fetched status from which the target is out
\* of reach (ERROR, or TERMINATED / TERMINATING while another status is waited
\* for) is a mismatch like any other: it uses up one attempt, the poll goes on
\* while attempts are left and ends only by exhaustion.
C28_NoEarlyExitOnDeadEnd ==
    (op \in WaitOps /\ DeadEndFetched) =>
        /\ i = fetches
        /\ i < tries => pc \in {"sleep", "fetch"}
        /\ pc = "done" => (fetches = tries /\ err.kind = "ConvergenceTimeout")

\* UnPark goes on after a first fetch that showed ERROR
C28_Witness ==
    /\ op = "UnPark" /\ DeadEndFetched /\ fres.body.db.Status = "ERROR"
    /\ fetches = 1 /\ i = 1 /\ pc = "sleep"

\* C29: when CreateDb was answered 201 with location L and its poll ends in
\* the exhaustion error, the values returned next to the error hold L.
C29_IdSurvivesTimeout ==
    (op = "CreateDb" /\ pc = "done" /\ err.kind = "ConvergenceTimeout"
        /\ ~res.failed /\ res.StatusCode = 201 /\ res.location # "") =>
        (retId = res.location \/ retDb.ID = res.location)

\* C30: whenever CreateDb is in its poll the id it polls is not empty; no
\* fetch is made for the empty id.
C30_NoPollOnEmptyId ==
    (op = "CreateDb" /\ PollStarted) =>
        /\ id # ""
        /\ fetches > 0 => id # ""

\* C27: on a client obtained from Authenticate(clientInfo, verbose) every
\* iteration of a poll that goes on logs one entry: the detailed one, naming
\* the id and the attempts left (tries-i-1), when the caller passed true, the
\* entry "waiting" when the caller passed false.
C27_VerbosityFollowsFlag ==
    PollStarted =>
        /\ pc \in {"sleep", "fetch"} => logs = i
        /\ logs > 0 =>
              IF callerVerbose
              THEN /\ lastLog.kind = "detail"
                   /\ {"id", "remaining"} \subseteq lastLog.names
                   /\ lastLog.id = id /\ lastLog.remaining = tries - i
              ELSE lastLog = Waiting

\* what the last fetch alone would leave as the last response of Terminate
LastResponseOf(r) ==
    IF r.StatusCode = 200 THEN NoLast
    ELSE IF variant = "astra" THEN LastErrors(r.body)
    ELSE LastOf(readErrorFromResponse(r))

\* C31: when Terminate returns the exhaustion error, the last status code and
\* the last response it names are those of the final fetch; after a final
\* fetch answered 200 the last response is not that of an earlier fetch.
C31_ExhaustionReportCoherent ==
    (op = "Terminate" /\ pc = "done" /\ err.kind = "ConvergenceTimeout") =>
        /\ err.lastStatusCode = fres.StatusCode
        /\ err.lastResponse = LastResponseOf(fres)

\* C32: given the same response to the terminate request and the same
\* response to every status fetch, Terminate of astra.go and Terminate of the
\* latest variant return the same kind of outcome after the same number of
\* fetches.
C32_TerminateVariantsAgree ==
    (pair["astra"].pc = "done" /\ pair["latest"].pc = "done") =>
        /\ pair["astra"].outcome = pair["latest"].outcome
        /\ pair["astra"].fetches = pair["latest"].fetches

\* C33: WaitUntil called with tries <= 0 returns at once, without a sleep and
\* without a fetch, the zero database and the exhaustion error, whose seconds
\* are intervalSeconds * tries (zero, or of the opposite sign of the interval
\* for negative tries); it never returns success.
C33_DegenerateBudget ==
    (op = "WaitUntil" /\ tries <= 0) =>
        /\ pc = "done" /\ sleeps = 0 /\ fetches = 0 /\ slept = 0 /\ i = 0
        /\ retDb = ZeroDataBase
        /\ err # Nil /\ err.kind = "ConvergenceTimeout"
        /\ err.id = id /\ err.status = status
        /\ err.seconds = intervalSeconds * tries

\* WaitUntil(id, -1, 2, s) has returned the error that names -2 seconds
C33_Witness ==
    /\ op = "WaitUntil" /\ tries = -1 /\ intervalSeconds = 2 /\ pc = "done"
    /\ err.kind = "ConvergenceTimeout" /\ err.seconds = -2 /\ fetches = 0

\* the value the query sent carries for key, "" when it carries none
Sent(key) ==
    IF \E kv \in listQuery.params : kv.key = key
    THEN (CHOOSE kv \in listQuery.params : kv.key = key).value
    ELSE ""
Carries(key) == \E kv \in listQuery.params : kv.key = key

\* C34: the query ListDb sends carries include, provider and starting_after
\* exactly when the argument is not the empty string, and limit exactly when
\* limit > 0, each with the value of the argument and nothing else;
\* ListDb("", "", "", 10) sends limit=10 alone; on a 200 whose body is a list
\* of databases it returns that list and no error.
C34_OptionalListFilters ==
    listPc = "done" =>
        /\ Carries("include") <=> listArgs.include # ""
        /\ Carries("provider") <=> listArgs.provider # ""
        /\ Carries("starting_after") <=> listArgs.startingAfter # ""
        /\ Carries("limit") <=> listArgs.limit > 0
        /\ Sent("include") = listArgs.include
        /\ Sent("provider") = listArgs.provider
        /\ Sent("starting_after") = listArgs.startingAfter
        /\ listArgs.limit = 1 => Sent("limit") = "1"
        /\ listArgs.limit = 10 => Sent("limit") = "10"
        /\ \A kv \in listQuery.params :
              kv.key \in {"include", "provider", "starting_after", "limit"}
        /\ listArgs = ListArgs("", "", "", 10) =>
              (Cardinality(listQuery.params) = 1 /\ listQuery.raw = "limit=10")
        /\ listArgs = ListArgs("", "", "", 0) => listQuery.raw = ""
        /\ listArgs = ListArgs("a b", "GCP", "", -1) =>
              listQuery.raw = "include=a+b&provider=GCP"
        /\ (~listRes.failed /\ listRes.StatusCode = 200 /\ listRes.body.shape = "list") =>
              (listOut.err = Nil /\ listOut.dbs = listRes.body.dbs)
        /\ listOut.err = Nil =>
              (~listRes.failed /\ listRes.StatusCode = 200 /\ listRes.body.shape = "list")

\* ListDb("", "", "", 10) answered 200 with two databases
C34_Witness ==
    /\ listPc = "done" /\ listArgs = ListArgs("", "", "", 10)
    /\ listQuery.raw = "limit=10"
    /\ listRes.StatusCode = 200 /\ listOut.err = Nil /\ Len(listOut.dbs) = 2

====
